---- MODULE Spec2Model ----
(***************************************************************************)
(* A model of mca-parser's region container: the three constructors of     *)
(* Region, the header-indexed accessors (has_chunk, get_timestamp,         *)
(* get_chunk) and Chunk::parse.                                            *)
(*                                                                         *)
(* TLC's integers are 32 bits wide while the code computes in u32 and in   *)
(* usize (64 bits on the modelled target), so machine integers are kept as *)
(* little-endian sequences of 16-bit limbs: two limbs for a u32, four for  *)
(* a usize.  Buffers are kept sparsely: a length and the non-zero bytes.   *)
(***************************************************************************)
EXTENDS Integers, Sequences, FiniteSets, TLC

\* ------------------------------------------------------------------------
\* Program constants
\* ------------------------------------------------------------------------
HEADER_BYTES == 8192
SECTOR_BYTES == 4096
REGION_WIDTH == 32
HEADER_SLOTS == 1024
ENTRY_BYTES == 4
LIMB == 256 * 256
U32_LIMBS == 2
USIZE_LIMBS == 4

\* ------------------------------------------------------------------------
\* Bounds of the model
\* ------------------------------------------------------------------------
\* Coordinates queried: 0..MaxNear, and 31..(32 + MaxNear) around the edge.
MaxNear == 0
\* Bytes of compressed data written behind a forged chunk's type tag.
MaxBlob == 12

\* ------------------------------------------------------------------------
\* Machine integers as little-endian sequences of 16-bit limbs
\* ------------------------------------------------------------------------
Zero(n) == [i \in 1..n |-> 0]

\* A natural below 2^31 as an n-limb integer.
Big(v, n) == [i \in 1..n |-> IF i = 1 THEN v % LIMB
                             ELSE IF i = 2 THEN v \div LIMB ELSE 0]

\* `as usize` of a u32: zero extension.
AsUsize(a) == [i \in 1..USIZE_LIMBS |-> IF i <= Len(a) THEN a[i] ELSE 0]

IsSmall(a) == \A i \in 1..Len(a) : (i > 2 => a[i] = 0) /\ (i = 2 => a[i] < 32768)

\* The value of a limb integer that is below 2^31 (its low 31 bits).
ToNat(a) == a[1] + (a[2] % 32768) * LIMB

RECURSIVE AddLimbs(_, _, _, _)
AddLimbs(a, b, i, carry) ==
    IF i > Len(a) THEN <<carry>>
    ELSE LET s == a[i] + b[i] + carry
         IN  <<s % LIMB>> \o AddLimbs(a, b, i + 1, s \div LIMB)

\* a + b over Len(a) limbs; the last element of AddLimbs is the carry out.
WrappingAdd(a, b) == SubSeq(AddLimbs(a, b, 1, 0), 1, Len(a))
AddOverflows(a, b) == AddLimbs(a, b, 1, 0)[Len(a) + 1] # 0

RECURSIVE SubLimbs(_, _, _, _)
SubLimbs(a, b, i, borrow) ==
    IF i > Len(a) THEN <<borrow>>
    ELSE LET s == a[i] - b[i] - borrow
         IN  <<(s + LIMB) % LIMB>> \o SubLimbs(a, b, i + 1, IF s < 0 THEN 1 ELSE 0)

WrappingSub(a, b) == SubSeq(SubLimbs(a, b, 1, 0), 1, Len(a))
SubOverflows(a, b) == SubLimbs(a, b, 1, 0)[Len(a) + 1] # 0

RECURSIVE MulLimbs(_, _, _, _)
MulLimbs(a, k, i, carry) ==
    IF i > Len(a) THEN <<carry>>
    ELSE LET s == a[i] * k + carry
         IN  <<s % LIMB>> \o MulLimbs(a, k, i + 1, s \div LIMB)

\* a * k for a small k (k < 2^15), over Len(a) limbs.
WrappingMul(a, k) == SubSeq(MulLimbs(a, k, 1, 0), 1, Len(a))
MulOverflows(a, k) == MulLimbs(a, k, 1, 0)[Len(a) + 1] # 0

RECURSIVE LessFrom(_, _, _)
LessFrom(a, b, i) ==
    IF i = 0 THEN FALSE
    ELSE IF a[i] # b[i] THEN a[i] < b[i]
    ELSE LessFrom(a, b, i - 1)

Less(a, b) == LessFrom(a, b, Len(a))

\* ------------------------------------------------------------------------
\* Byte buffers
\* ------------------------------------------------------------------------
\* A buffer is its length and its non-zero bytes; every other byte is 0.
ByteAt(buf, p) == IF p \in DOMAIN buf.bytes THEN buf.bytes[p] ELSE 0

\* u32::to_be_bytes / from_be_bytes
to_be_bytes(a) == <<a[2] \div 256, a[2] % 256, a[1] \div 256, a[1] % 256>>
from_be_bytes(b) == <<b[3] * 256 + b[4], b[1] * 256 + b[2]>>


\* ------------------------------------------------------------------------
\* BigEndian<N> (bigendian.rs)
\* ------------------------------------------------------------------------
\* if N > 4 { panic!(); }
as_u32_panics(inner) == Len(inner) > 4

\* as_u32 with the bytes it has first and zeros after them
as_u32_left_aligned(inner) ==
    from_be_bytes([i \in 1..4 |-> IF i <= Len(inner) THEN inner[i] ELSE 0])

\* BigEndian<N>::as_u32 for N <= 4: the missing high bytes are zero.
as_u32(inner) ==
    LET n == Len(inner)
    IN  from_be_bytes([i \in 1..4 |-> IF i <= 4 - n THEN 0 ELSE inner[i - (4 - n)]])

\* impl From<BigEndian<3>> for u32 and From<BigEndian<4>> for u32 (be_impl!)
u32_from(be) ==
    IF Len(be) = 3 THEN from_be_bytes(<<0, be[1], be[2], be[3]>>)
    ELSE from_be_bytes(be)

\* ------------------------------------------------------------------------
\* Region: a view of a buffer as locations, timestamps and data
\* ------------------------------------------------------------------------
NoRegion == [buf |-> [len |-> 0, bytes |-> <<>>], data_len |-> 0, built |-> FALSE]

\* The pointer cast of from_slice / from_array / from_reader: the header is
\* the first 8192 bytes of the buffer, `data` is the remaining len - 8192.
RegionOver(buf) == [buf |-> buf, data_len |-> buf.len - HEADER_BYTES, built |-> TRUE]

\* size_of_val(region)
size_of_val(self) == HEADER_BYTES + self.data_len

\* self.locations[i]: Location { offset: BigEndian<3>, sector_count: u8 }
LocationAt(self, i) ==
    [offset |-> <<ByteAt(self.buf, ENTRY_BYTES * i),
                  ByteAt(self.buf, ENTRY_BYTES * i + 1),
                  ByteAt(self.buf, ENTRY_BYTES * i + 2)>>,
     sector_count |-> ByteAt(self.buf, ENTRY_BYTES * i + 3)]

\* self.timestamps[i]: BigEndian<4>
TimestampAt(self, i) ==
    LET at == HEADER_SLOTS * ENTRY_BYTES + ENTRY_BYTES * i
    IN  <<ByteAt(self.buf, at), ByteAt(self.buf, at + 1),
          ByteAt(self.buf, at + 2), ByteAt(self.buf, at + 3)>>

\* self.data[p]
DataAt(self, p) == ByteAt(self.buf, HEADER_BYTES + p)

\* is_empty with the sector count forgotten
is_empty_offset_only(loc) == as_u32(loc.offset) = Zero(U32_LIMBS)

\* Location::is_empty
is_empty(loc) == as_u32(loc.offset) = Zero(U32_LIMBS) /\ loc.sector_count = 0

\* chunk_index with assert!(x < 32) left out
chunk_index_ok_z_only(x, z) == z < REGION_WIDTH

\* The assertions of Region::chunk_index, and the index it returns.
chunk_index_ok(x, z) == x < REGION_WIDTH /\ z < REGION_WIDTH
\* the index with x and z in each other's place
chunk_index_transposed(x, z) == x * REGION_WIDTH + z
chunk_index(x, z) == z * REGION_WIDTH + x


\* ------------------------------------------------------------------------
\* Outcomes of a call
\* ------------------------------------------------------------------------
\* A &Chunk is a fat pointer: the position of its compression_type byte in
\* `data` and the length of the compressed_data that follows it.
NoChunk == [at |-> 0, len |-> Zero(USIZE_LIMBS)]

Outcome(tag, err, val, chunk, num) ==
    [tag |-> tag, err |-> err, val |-> val, chunk |-> chunk, num |-> num]

Panic == Outcome("Panic", "-", "-", NoChunk, Zero(U32_LIMBS))
\* Abnormal termination, one of the outcomes of undefined behaviour.
Abort == Outcome("Abort", "-", "-", NoChunk, Zero(U32_LIMBS))
Err(e) == Outcome("Err", e, "-", NoChunk, Zero(U32_LIMBS))
Ok(v) == Outcome("Ok", "-", v, NoChunk, Zero(U32_LIMBS))
OkSome(chunk) == Outcome("Ok", "-", "Some", chunk, Zero(U32_LIMBS))
OkU32(n) == Outcome("Ok", "-", "U32", NoChunk, n)

\* ------------------------------------------------------------------------
\* Region::get_timestamp, Region::has_chunk
\* ------------------------------------------------------------------------
get_timestamp(self, x, z) ==
    IF ~chunk_index_ok(x, z) THEN Panic
    ELSE OkU32(as_u32(TimestampAt(self, chunk_index(x, z))))

has_chunk(self, x, z) ==
    IF ~chunk_index_ok(x, z) THEN Panic
    ELSE IF ~is_empty(LocationAt(self, chunk_index(x, z))) THEN Ok("True")
    ELSE Ok("False")

\* ------------------------------------------------------------------------
\* Region::get_chunk
\* ------------------------------------------------------------------------
\* let start = (offset - 2) as usize * 4096;  with overflow checks off
chunk_start(offset) ==
    WrappingMul(AsUsize(WrappingSub(offset, Big(2, U32_LIMBS))), SECTOR_BYTES)

\* ... and whether that line panics with overflow checks on.
chunk_start_overflows(offset) ==
    \/ SubOverflows(offset, Big(2, U32_LIMBS))
    \/ MulOverflows(AsUsize(WrappingSub(offset, Big(2, U32_LIMBS))), SECTOR_BYTES)

\* the length check with its comparison turned around
unexpected_eof_reversed(self, start, need) ==
    Less(WrappingAdd(start, need), Big(self.data_len, USIZE_LIMBS))

\* the length check with the bytes needed left out
unexpected_eof_at_start(self, start, need) ==
    Less(Big(self.data_len, USIZE_LIMBS), start)

\* self.data.len() < start + need
unexpected_eof(self, start, need) ==
    Less(Big(self.data_len, USIZE_LIMBS), WrappingAdd(start, need))

\* The bounds check of the slice index self.data[start..][..n]: it panics
\* when fewer than n bytes follow start.
slice_index_panics(self, start, n) ==
    Less(Big(self.data_len, USIZE_LIMBS), WrappingAdd(start, n))

\* u32::from(*(self.data[start..][..4] as *const BigEndian<4>)) as usize
chunk_len(self, start) ==
    AsUsize(u32_from(<<DataAt(self, start), DataAt(self, start + 1),
                       DataAt(self, start + 2), DataAt(self, start + 3)>>))

\* the chunk with the type tag counted as compressed data
chunk_at_whole_len(start, len) == [at |-> start + 4, len |-> len]

\* slice_from_raw_parts(self.data[start + 4..].as_ptr(), len - 1) as *const Chunk
chunk_at(start, len) ==
    [at |-> start + 4, len |-> WrappingSub(len, Big(1, USIZE_LIMBS))]

\* The set of outcomes of get_chunk: one outcome, except where the code's
\* behaviour is undefined.  `checks` is the build's overflow-checks setting.
get_chunk(self, chunk_x, chunk_z, checks) ==
    IF ~chunk_index_ok(chunk_x, chunk_z) THEN {Panic}
    ELSE
    LET loc == LocationAt(self, chunk_index(chunk_x, chunk_z))
        offset == u32_from(loc.offset)
        start == chunk_start(offset)
        four == Big(4, USIZE_LIMBS)
        start4 == WrappingAdd(start, four)
    IN  IF is_empty(loc) THEN {Ok("None")}
        ELSE IF checks /\ chunk_start_overflows(offset) THEN {Panic}
        ELSE IF checks /\ AddOverflows(start, four) THEN {Panic}
        ELSE IF unexpected_eof(self, start, four) THEN {Err("UnexpectedEof")}
        ELSE IF slice_index_panics(self, start, four) THEN {Panic}
        ELSE
        LET len == chunk_len(self, ToNat(start))
        IN  IF checks /\ AddOverflows(start4, len) THEN {Panic}
            ELSE IF unexpected_eof(self, start4, len) THEN {Err("UnexpectedEof")}
            ELSE IF SubOverflows(len, Big(1, USIZE_LIMBS))
            THEN IF checks THEN {Panic}
                 \* a Chunk of usize::MAX bytes: undefined behaviour
                 ELSE {OkSome(chunk_at(ToNat(start), len)), Abort}
            ELSE {OkSome(chunk_at(ToNat(start), len))}

\* ------------------------------------------------------------------------
\* Chunk
\* ------------------------------------------------------------------------
\* Whether the bytes a &Chunk covers lie inside the region's data.
chunk_in_bounds(self, chunk) ==
    /\ chunk.at < self.data_len
    /\ IsSmall(chunk.len)
    /\ ToNat(chunk.len) <= self.data_len - chunk.at - 1

\* chunk.compression_type, as the byte it is stored as
compression_type(self, chunk) == DataAt(self, chunk.at)

\* chunk.compressed_data
compressed_data(self, chunk) ==
    [i \in 1..ToNat(chunk.len) |-> DataAt(self, chunk.at + i)]

\* The discriminants of CompressionType
GZip == 1
Zlib == 2
Uncompressed == 3
LZ4 == 4
Custom == 127
CompressionTypes == {GZip, Zlib, Uncompressed, LZ4, Custom}

\* The two collaborators of Chunk::parse, miniz_oxide's
\* inflate::decompress_to_vec_zlib and fastnbt::from_bytes, are functions of
\* the compressed bytes.  `codec` gives, for each byte string, how far the
\* two get: the stream is corrupt, it inflates to bytes that do not match
\* the chunk schema, or it inflates to a chunk.
CodecOutcomes == {"corrupt", "schema_mismatch", "chunk"}
inflate_fails(codec, data) == codec[data] = "corrupt"
from_bytes_fails(codec, data) == codec[data] = "schema_mismatch"

\* the Zlib arm with a default chunk in place of the decode error
parse_zlib_default(codec, data) ==
    IF inflate_fails(codec, data) THEN Err("DecompressError")
    ELSE Ok("Parsed")

\* The CompressionType::Zlib arm of Chunk::parse
parse_zlib(codec, data) ==
    IF inflate_fails(codec, data) THEN Err("DecompressError")
    ELSE IF from_bytes_fails(codec, data) THEN Err("NbtError")
    ELSE Ok("Parsed")

\* The other arms of Chunk::parse: todo!()
parse_todo == Panic

\* The set of outcomes of Chunk::parse.
parse(self, chunk, codec) ==
    IF ~chunk_in_bounds(self, chunk)
    \* reading a Chunk that reaches past the buffer: undefined behaviour
    THEN {Abort, Panic, Err("DecompressError"), Err("NbtError"), Ok("Parsed")}
    ELSE IF compression_type(self, chunk) = Zlib
    THEN {parse_zlib(codec, compressed_data(self, chunk))}
    ELSE IF compression_type(self, chunk) \in CompressionTypes
    THEN {parse_todo}
    \* a byte that is no discriminant of CompressionType: matching on it is
    \* undefined behaviour; any arm may run
    ELSE {parse_todo, parse_zlib(codec, compressed_data(self, chunk)), Abort}

\* ------------------------------------------------------------------------
\* Constructors
\* ------------------------------------------------------------------------
\* from_slice refusing a buffer of exactly 8192 bytes
from_slice_off_by_one(slice) ==
    IF slice.len <= HEADER_BYTES THEN [out |-> Err("MissingHeader"), region |-> NoRegion]
    ELSE [out |-> Ok("Region"), region |-> RegionOver(slice)]

\* Region::from_slice
from_slice(slice) ==
    IF slice.len < HEADER_BYTES THEN [out |-> Err("MissingHeader"), region |-> NoRegion]
    ELSE [out |-> Ok("Region"), region |-> RegionOver(slice)]

\* Region::from_array, whose assert!(N >= 8192) panics
from_array(arr) ==
    IF ~(arr.len >= HEADER_BYTES) THEN [out |-> Panic, region |-> NoRegion]
    ELSE [out |-> Ok("Region"), region |-> RegionOver(arr)]

\* Region::from_reader; `io_error` is whether r.read_to_end fails
from_reader(r, io_error) ==
    IF io_error THEN [out |-> Err("IoError"), region |-> NoRegion]
    ELSE IF r.len < HEADER_BYTES THEN [out |-> Err("MissingHeader"), region |-> NoRegion]
    ELSE [out |-> Ok("Region"), region |-> RegionOver(r)]

\* #[derive(PartialEq)] of Region: locations, timestamps and data compare
\* equal, the data by length and then byte by byte.  The bytes a sparse
\* buffer does not list are 0 on both sides.
region_eq(self, other) ==
    /\ self.data_len = other.data_len
    /\ \A p \in DOMAIN self.buf.bytes \cup DOMAIN other.buf.bytes :
          p < size_of_val(self) => ByteAt(self.buf, p) = ByteAt(other.buf, p)

\* ------------------------------------------------------------------------
\* The buffers the model is run on
\* ------------------------------------------------------------------------
Put(at, seq) == [p \in at..(at + Len(seq) - 1) |-> seq[p - at + 1]]

\* The first `len` bytes of `content`, kept sparsely.
Buffer(len, content) ==
    [len |-> len,
     bytes |-> [p \in {q \in DOMAIN content : q < len /\ content[q] # 0} |-> content[p]]]

\* A region file as the tests forge it: one location entry and its timestamp
\* at `slot`, every other entry zero, and one chunk record (length, type
\* tag, compressed data) at the start of payload sector `sector`; cut to
\* `len` bytes.
Forge(len, slot, offset, count, ts, sector, length, tag, blob) ==
    Buffer(len,
           Put(ENTRY_BYTES * slot, SubSeq(to_be_bytes(offset), 2, 4) \o <<count>>)
        @@ Put(HEADER_SLOTS * ENTRY_BYTES + ENTRY_BYTES * slot, to_be_bytes(ts))
        @@ Put(HEADER_BYTES + sector * SECTOR_BYTES,
               to_be_bytes(length) \o <<tag>> \o blob))

\* "Compressed version of [0, 0, 0, 0]" of test_invalid_chunks_invalid_nbt
ZlibFixture == <<120, 218, 99, 96, 96, 96, 0, 0, 0, 4, 0, 1>>
\* [0, 0, 0, 0] of test_invalid_chunks_compress, no zlib stream
ZeroBlob == [i \in 1..MaxBlob |-> 0]
ZlibBlob == [i \in 1..MaxBlob |-> IF i <= Len(ZlibFixture) THEN ZlibFixture[i] ELSE 0]

\* A timestamp of test_get_timestamp
FixtureTimestamp == 1709838433

FullLength == Big(MaxBlob + 1, U32_LIMBS)
LongFile == HEADER_BYTES + SECTOR_BYTES + 5 + MaxBlob

FileLens == {16, HEADER_BYTES - 1, HEADER_BYTES, HEADER_BYTES + 3, HEADER_BYTES + 4,
             HEADER_BYTES + 5, HEADER_BYTES + 5 + MaxBlob, LongFile}
\* file length and the payload sector the chunk record is written to
Placements == {<<len, 0>> : len \in FileLens} \cup {<<LongFile, 1>>}

\* slot, sector offset and sector count of the forged location entry
Offsets == {Big(0, U32_LIMBS), Big(1, U32_LIMBS), Big(2, U32_LIMBS), Big(3, U32_LIMBS),
            <<65535, 255>>}
Entries ==
    {<<0, offset, count>> : offset \in Offsets, count \in {0, 1}}
    \cup {<<REGION_WIDTH - 1, Big(2, U32_LIMBS), 2>>}

\* declared length, type tag and compressed data of the forged chunk record
Lengths == {Big(0, U32_LIMBS), Big(1, U32_LIMBS), FullLength,
            Big(MaxBlob + 21, U32_LIMBS), <<65535, 65535>>}
Tags == {0, GZip, Zlib, Uncompressed, LZ4, Custom, 255}
Records ==
    {<<length, Zlib, ZeroBlob>> : length \in Lengths}
    \cup {<<FullLength, tag, ZeroBlob>> : tag \in Tags}
    \cup {<<FullLength, Zlib, ZlibBlob>>}

Inputs ==
    { Forge(p[1], e[1], e[2], e[3], Big(FixtureTimestamp, U32_LIMBS), p[2], r[1], r[2], r[3]) :
        p \in Placements, e \in Entries, r \in Records }

Coords == (0..MaxNear) \cup ((REGION_WIDTH - 1)..(REGION_WIDTH + MaxNear))

\* The compressed byte strings of the chunks a buffer's region can hand out.
ZlibStreams(buf) ==
    IF buf.len < HEADER_BYTES THEN {}
    ELSE LET self == RegionOver(buf)
         IN  { compressed_data(self, o.chunk) :
                 o \in { q \in UNION { get_chunk(self, i % REGION_WIDTH, i \div REGION_WIDTH, FALSE) :
                                         i \in 0..(HEADER_SLOTS - 1) } :
                         q.val = "Some" /\ chunk_in_bounds(self, q.chunk) } }

\* ------------------------------------------------------------------------
\* State
\* ------------------------------------------------------------------------
VARIABLES
    input,            \* the bytes handed to a constructor
    overflow_checks,  \* the build: whether integer overflow panics (debug) or wraps
    codec,            \* what the zlib and NBT collaborators make of each stream
    region,           \* the Region constructed, or NoRegion
    result,           \* the last call: its name, arguments and outcome
    walk,             \* validate's loop: the slot it is at and how it ended
    parsed,           \* the ParsedChunk whose blocks are asked for
    dimension,        \* the Dimension: the region files it holds
    probe,            \* the last call on a chunk, a packed array or a dimension
    earlier           \* a call made earlier and what it returned, kept by the caller

vars == <<input, overflow_checks, codec, region, result, walk, parsed, dimension, probe,
          earlier>>

\* What the variables of the other operations hold while they are not in use.
NoWalk == [x |-> 0, z |-> 0, visited |-> 0, out |-> Ok("-")]
NoParsed == [sections |-> <<>>]
NoDimension == [regions |-> {}]
NoProbe == [op |-> "none"]
NoEarlier == [op |-> "none"]

\* `io` is whether reading the input failed (from_reader only).
Call(op, x, z, arg, out) ==
    [op |-> op, x |-> x, z |-> z, arg |-> arg, io |-> FALSE, out |-> out]

Init ==
    /\ input \in Inputs
    /\ earlier = NoEarlier
    /\ overflow_checks \in BOOLEAN
    /\ codec \in [ZlibStreams(input) -> CodecOutcomes]
    /\ region = NoRegion
    /\ result = Call("none", 0, 0, NoChunk, Ok("-"))
    /\ walk = NoWalk
    /\ parsed = NoParsed
    /\ dimension = NoDimension
    /\ probe = NoProbe

FromSlice ==
    /\ result.op = "none"
    /\ region' = from_slice(input).region
    /\ result' = Call("from_slice", 0, 0, NoChunk, from_slice(input).out)
    /\ UNCHANGED <<input, overflow_checks, codec, walk, parsed, dimension, probe, earlier>>

FromArray ==
    /\ result.op = "none"
    /\ region' = from_array(input).region
    /\ result' = Call("from_array", 0, 0, NoChunk, from_array(input).out)
    /\ UNCHANGED <<input, overflow_checks, codec, walk, parsed, dimension, probe, earlier>>

FromReader ==
    /\ result.op = "none"
    /\ \E io_error \in BOOLEAN :
         /\ region' = from_reader(input, io_error).region
         /\ result' = [Call("from_reader", 0, 0, NoChunk, from_reader(input, io_error).out)
                          EXCEPT !.io = io_error]
    /\ UNCHANGED <<input, overflow_checks, codec, walk, parsed, dimension, probe, earlier>>

HasChunk ==
    /\ region.built
    /\ \E x \in Coords, z \in Coords :
         result' = Call("has_chunk", x, z, NoChunk, has_chunk(region, x, z))
    /\ UNCHANGED <<input, overflow_checks, codec, region, walk, parsed, dimension, probe, earlier>>

GetTimestamp ==
    /\ region.built
    /\ \E x \in Coords, z \in Coords :
         result' = Call("get_timestamp", x, z, NoChunk, get_timestamp(region, x, z))
    /\ UNCHANGED <<input, overflow_checks, codec, region, walk, parsed, dimension, probe, earlier>>

GetChunk ==
    /\ region.built
    /\ \E x \in Coords, z \in Coords :
         \E out \in get_chunk(region, x, z, overflow_checks) :
            result' = Call("get_chunk", x, z, NoChunk, out)
    /\ UNCHANGED <<input, overflow_checks, codec, region, walk, parsed, dimension, probe, earlier>>

\* chunk.parse() on the chunk the last get_chunk returned
Parse ==
    /\ result.op = "get_chunk"
    /\ result.out.val = "Some"
    /\ \E out \in parse(region, result.out.chunk, codec) :
         result' = Call("parse", result.x, result.z, result.out.chunk, out)
    /\ UNCHANGED <<input, overflow_checks, codec, region, walk, parsed, dimension, probe, earlier>>

Next ==
    \/ FromSlice
    \/ FromArray
    \/ FromReader
    \/ HasChunk
    \/ GetTimestamp
    \/ GetChunk
    \/ Parse

Spec == Init /\ [][Next]_vars

\* ------------------------------------------------------------------------
\* The file format in the specification's terms, on mathematical integers
\* ------------------------------------------------------------------------
\* The call the state records is a call with in-domain coordinates.
InDomain == result.x \in 0..(REGION_WIDTH - 1) /\ result.z \in 0..(REGION_WIDTH - 1)
Index == result.z * REGION_WIDTH + result.x

FileByte(p) == ByteAt(input, p)
PayloadByte(p) == FileByte(HEADER_BYTES + p)
PayloadLen == input.len - HEADER_BYTES

\* The location entry of the call's slot: file bytes [4i, 4i + 4).
SectorOffset == (FileByte(4 * Index) * 256 + FileByte(4 * Index + 1)) * 256
                    + FileByte(4 * Index + 2)
SectorCount == FileByte(4 * Index + 3)
EntryEmpty == SectorOffset = 0 /\ SectorCount = 0

\* byteStart = (sector_offset - 2) * 4096 lies at or before the payload's end.
StartInPayload ==
    /\ SectorOffset >= 2
    /\ SectorOffset - 2 <= PayloadLen \div SECTOR_BYTES
ByteStart == (SectorOffset - 2) * SECTOR_BYTES
\* At least 4 bytes of payload remain at byteStart.
LengthReadable == StartInPayload /\ PayloadLen >= ByteStart + 4
\* The declared length L, when it is below 2^31.
Declared == ((PayloadByte(ByteStart) * 256 + PayloadByte(ByteStart + 1)) * 256
                + PayloadByte(ByteStart + 2)) * 256 + PayloadByte(ByteStart + 3)
\* payload length >= byteStart + 4 + L
LengthFits ==
    /\ LengthReadable
    /\ PayloadByte(ByteStart) < 128
    /\ Declared <= PayloadLen - ByteStart - 4

\* ------------------------------------------------------------------------
\* Claims
\* ------------------------------------------------------------------------

\* C1: when the entry's sector_offset is >= 2, L >= 1 and the payload holds
\* byteStart + 4 + L bytes, get_chunk returns Ok(Some(handle)): its type is
\* the byte payload[byteStart + 4], its compressed bytes are payload
\* [byteStart + 5, byteStart + 4 + L), its length is L - 1, all of it inside
\* the payload; the entry's sector_count plays no part.
C1_HandleIsDeclaredSlice ==
    (result.op = "get_chunk" /\ InDomain /\ LengthFits /\ Declared >= 1) =>
        /\ result.out.tag = "Ok" /\ result.out.val = "Some"
        /\ result.out.chunk.at = ByteStart + 4
        /\ result.out.chunk.len = Big(Declared - 1, USIZE_LIMBS)
        /\ chunk_in_bounds(region, result.out.chunk)
        /\ compression_type(region, result.out.chunk) = PayloadByte(ByteStart + 4)
        /\ compressed_data(region, result.out.chunk)
             = [i \in 1..(Declared - 1) |-> PayloadByte(ByteStart + 4 + i)]

\* a chunk in the second payload sector, with data, and sector_count 0
C1_Witness ==
    /\ result.op = "get_chunk" /\ InDomain /\ LengthFits
    /\ SectorOffset = 3 /\ SectorCount = 0 /\ Declared = MaxBlob + 1
    /\ result.out.val = "Some"
    /\ PayloadByte(ByteStart + 5) # 0

\* C2: a non-empty entry whose sector offset leaves fewer than 4 bytes of
\* payload at byteStart makes get_chunk return Err(UnexpectedEof): no panic,
\* and no byte is read, the length check being the first use of the payload.
C2_OffsetPastEnd ==
    (result.op = "get_chunk" /\ InDomain /\ SectorOffset >= 2 /\ ~LengthReadable) =>
        result.out = Err("UnexpectedEof")

\* the largest sector offset a location entry can hold
C2_Witness ==
    /\ result.op = "get_chunk" /\ InDomain
    /\ SectorOffset = 16777215 /\ PayloadLen > 0
    /\ result.out = Err("UnexpectedEof")

\* C3: when the length prefix L is readable but the payload is shorter than
\* byteStart + 4 + L, get_chunk returns Err(UnexpectedEof), no handle.
C3_LengthPastEnd ==
    (result.op = "get_chunk" /\ InDomain /\ LengthReadable /\ ~LengthFits) =>
        result.out = Err("UnexpectedEof")

\* test_missing_chunk: the declared length is 20 more than what follows
C3_Witness ==
    /\ result.op = "get_chunk" /\ InDomain /\ LengthReadable
    /\ PayloadByte(ByteStart) < 128 /\ Declared = MaxBlob + 21
    /\ PayloadLen = 5 + MaxBlob
    /\ result.out = Err("UnexpectedEof")

\* C4: a non-empty entry whose sector_offset is 0 or 1 makes get_chunk
\* return a typed error, never a panic.
C4_ReservedSectorIsError ==
    (result.op = "get_chunk" /\ InDomain /\ ~EntryEmpty /\ SectorOffset < 2) =>
        result.out.tag = "Err"

\* C5: has_chunk is true iff the entry is not (offset 0 and count 0), and
\* get_chunk returns Ok(None) iff has_chunk is false.
C5_HasChunkIffNonEmpty ==
    /\ (result.op = "has_chunk" /\ InDomain) =>
          result.out = (IF EntryEmpty THEN Ok("False") ELSE Ok("True"))
    /\ (result.op = "get_chunk" /\ InDomain) =>
          /\ (result.out = Ok("None")) <=> EntryEmpty
          /\ (result.out = Ok("None")) <=> (has_chunk(region, result.x, result.z) = Ok("False"))

\* an empty entry in a region whose payload holds a chunk record
C5_Witness ==
    /\ result.op = "get_chunk" /\ InDomain /\ EntryEmpty
    /\ result.out = Ok("None")
    /\ PayloadLen > 4 /\ PayloadByte(4) # 0

\* C6, as claimed: from_slice and from_reader fail with MissingHeader iff
\* the input is shorter than 8192 bytes, and otherwise succeed with a region
\* that covers every input byte.
C6_MissingHeaderIffShort ==
    result.op \in {"from_slice", "from_reader"} =>
        /\ (result.out = Err("MissingHeader")) <=> (input.len < 8192)
        /\ input.len >= 8192 =>
              /\ result.out = Ok("Region")
              /\ region.built /\ region.buf = input
              /\ region.data_len = input.len - 8192
              /\ size_of_val(region) = input.len

\* C6, amended: that holds of from_slice, and of from_reader when reading
\* the input to its end succeeds; when the read fails, from_reader fails
\* with IoError whatever the input's length, and builds no region.
C6_MissingHeaderIffShortOnceRead ==
    /\ (result.op \in {"from_slice", "from_reader"} /\ ~result.io) =>
          /\ (result.out = Err("MissingHeader")) <=> (input.len < 8192)
          /\ input.len >= 8192 =>
                /\ result.out = Ok("Region")
                /\ region.built /\ region.buf = input
                /\ region.data_len = input.len - 8192
                /\ size_of_val(region) = input.len
    /\ (result.op = "from_reader" /\ result.io) =>
          result.out = Err("IoError") /\ ~region.built

\* from_reader, its read succeeding, on exactly 8192 bytes whose one
\* location entry is forged
C6_Witness ==
    /\ result.op = "from_reader" /\ ~result.io /\ input.len = 8192
    /\ result.out = Ok("Region") /\ region.data_len = 0
    /\ input.bytes # <<>>

\* C7: over a container of exactly 8192 bytes, get_chunk returns
\* Err(UnexpectedEof) for every non-empty entry and Ok(None) for every
\* empty one.
C7_HeaderOnly ==
    (result.op = "get_chunk" /\ InDomain /\ input.len = 8192) =>
        result.out = (IF EntryEmpty THEN Ok("None") ELSE Err("UnexpectedEof"))

\* C8: index(x, z) = z * 32 + x maps [0,32) x [0,32) one-to-one onto
\* [0,1024), and with x >= 32 or z >= 32 each of get_chunk, has_chunk and
\* get_timestamp panics, whatever the region holds.  The index function does
\* not depend on the state: it is checked in the states before a region is
\* built.
C8_IndexAndDomain ==
    /\ ~region.built =>
          /\ \A x \in 0..31, z \in 0..31 :
                /\ chunk_index_ok(x, z)
                /\ chunk_index(x, z) \in 0..1023
                /\ chunk_index(x, z) % 32 = x
                /\ chunk_index(x, z) \div 32 = z
          /\ \A i \in 0..1023 : chunk_index(i % 32, i \div 32) = i
    /\ (result.op \in {"get_chunk", "has_chunk", "get_timestamp"} /\ ~InDomain) =>
          result.out = Panic

\* x = 32 over a region whose slot 0 holds a chunk
C8_Witness ==
    /\ result.op = "has_chunk" /\ result.x = 32 /\ result.z = 0
    /\ result.out = Panic
    /\ has_chunk(region, 0, 0) = Ok("True")

\* C9: parse on a handle whose type tag is not 2 returns the error
\* UnsupportedCompression(tag), and never panics.
C9_UnsupportedCompression ==
    (result.op = "parse" /\ chunk_in_bounds(region, result.arg)
        /\ PayloadByte(result.arg.at) # 2) =>
        result.out = Err("UnsupportedCompression")

\* C10: parse on a zlib-tagged handle (one whose bytes lie in the payload)
\* returns Err(DecompressError) whenever inflating its compressed bytes
\* fails, Err(NbtError) whenever they inflate but do not decode to a chunk,
\* and Ok only when both steps succeed.
C10_ParseSurfacesFailures ==
    (result.op = "parse" /\ chunk_in_bounds(region, result.arg)
        /\ PayloadByte(result.arg.at) = 2) =>
        LET data == [i \in 1..ToNat(result.arg.len) |-> PayloadByte(result.arg.at + i)]
        IN  /\ codec[data] = "corrupt" => result.out = Err("DecompressError")
            /\ codec[data] = "schema_mismatch" => result.out = Err("NbtError")
            /\ result.out.tag \in {"Err", "Ok"}
            /\ result.out.tag = "Ok" => (codec[data] = "chunk" /\ result.out = Ok("Parsed"))

\* test_invalid_chunks_invalid_nbt: a zlib stream that inflates to bytes
\* that are no chunk
C10_Witness ==
    /\ result.op = "parse" /\ chunk_in_bounds(region, result.arg)
    /\ PayloadByte(result.arg.at) = 2
    /\ compressed_data(region, result.arg) = ZlibBlob
    /\ codec[ZlibBlob] = "schema_mismatch"
    /\ result.out = Err("NbtError")

\* ------------------------------------------------------------------------
\* Region::validate
\* ------------------------------------------------------------------------
Running == Outcome("Running", "-", "-", NoChunk, Zero(U32_LIMBS))

\* One pass of validate's loop body at (x, z): the outcomes of
\* `if let Some(chunk) = self.get_chunk(x, z)? { chunk.parse()?; }`,
\* Ok("next") when the loop goes on.
validate_slot(self, x, z, checks, codec_of) ==
    UNION { IF g.tag # "Ok" THEN {g}
            ELSE IF g.val = "Some"
            THEN { IF p.tag # "Ok" THEN p ELSE Ok("next") : p \in parse(self, g.chunk, codec_of) }
            ELSE {Ok("next")} :
            g \in get_chunk(self, x, z, checks) }

\* Region::validate as one call.  The inner loop, `for z in 0..32`, of
\* column x from z on: `?` returns the first outcome that is no success,
\* and Ok("next") stands for the loop running to its end.
RECURSIVE validate_z(_, _, _, _, _)
validate_z(self, x, z, checks, codec_of) ==
    IF z = REGION_WIDTH THEN {Ok("next")}
    ELSE LET outs == validate_slot(self, x, z, checks, codec_of)
         IN  (outs \ {Ok("next")})
             \cup (IF Ok("next") \in outs THEN validate_z(self, x, z + 1, checks, codec_of)
                   ELSE {})

\* The outer loop, `for x in 0..32`, from x on, and the Ok(()) after it.
RECURSIVE validate_x(_, _, _, _)
validate_x(self, x, checks, codec_of) ==
    IF x = REGION_WIDTH THEN {Ok("()")}
    ELSE LET outs == validate_z(self, x, 0, checks, codec_of)
         IN  (outs \ {Ok("next")})
             \cup (IF Ok("next") \in outs THEN validate_x(self, x + 1, checks, codec_of)
                   ELSE {})

validate(self, checks, codec_of) == validate_x(self, 0, checks, codec_of)

\* Region files with two chunk slots filled: (0, 1), which the loop reaches
\* second, and (1, 0), which it reaches thirty-fourth; their records lie in
\* the payload sectors 0 and 1.
SlotEntry(slot, offset, count, sector, length, tag, blob) ==
       Put(ENTRY_BYTES * slot, SubSeq(to_be_bytes(offset), 2, 4) \o <<count>>)
    @@ Put(HEADER_BYTES + sector * SECTOR_BYTES, to_be_bytes(length) \o <<tag>> \o blob)

\* what a slot may hold: nothing, a Zlib chunk, a GZip chunk, an entry that
\* points past the end of the file, an entry that points into the header
SlotKinds == {"empty", "zlib", "gzip", "eof", "header"}
SlotOf(kind, slot, sector, blob) ==
    CASE kind = "empty"  -> SlotEntry(slot, Big(0, U32_LIMBS), 0, sector, Big(0, U32_LIMBS), 0, <<>>)
      [] kind = "zlib"   -> SlotEntry(slot, Big(sector + 2, U32_LIMBS), 1, sector, FullLength, Zlib, blob)
      [] kind = "gzip"   -> SlotEntry(slot, Big(sector + 2, U32_LIMBS), 1, sector, FullLength, GZip, blob)
      [] kind = "eof"    -> SlotEntry(slot, <<65535, 255>>, 1, sector, Big(0, U32_LIMBS), 0, <<>>)
      [] kind = "header" -> SlotEntry(slot, Big(1, U32_LIMBS), 1, sector, Big(0, U32_LIMBS), 0, <<>>)

FirstSlot == chunk_index(0, 1)
LaterSlot == chunk_index(1, 0)
ValidateInputs ==
    { Buffer(LongFile, SlotOf(a, FirstSlot, 0, ZeroBlob) @@ SlotOf(b, LaterSlot, 1, ZlibBlob)) :
        a \in SlotKinds, b \in SlotKinds }

ValidateInit ==
    /\ input \in ValidateInputs
    /\ earlier = NoEarlier
    /\ overflow_checks \in BOOLEAN
    /\ codec \in [ZlibStreams(input) -> CodecOutcomes]
    /\ region = from_slice(input).region
    /\ result = Call("from_slice", 0, 0, NoChunk, from_slice(input).out)
    /\ walk = [x |-> 0, z |-> 0, visited |-> 0, out |-> Running]
    /\ parsed = NoParsed
    /\ dimension = NoDimension
    /\ probe = NoProbe

\* for x in 0..32 { for z in 0..32 { ... } }: one pass of the body
ValidateSlot ==
    /\ walk.out = Running
    /\ walk.x < REGION_WIDTH
    /\ \E out \in validate_slot(region, walk.x, walk.z, overflow_checks, codec) :
         walk' = [x |-> IF walk.z + 1 < REGION_WIDTH THEN walk.x ELSE walk.x + 1,
                  z |-> IF walk.z + 1 < REGION_WIDTH THEN walk.z + 1 ELSE 0,
                  visited |-> walk.visited + 1,
                  out |-> IF out = Ok("next") THEN Running ELSE out]
    /\ UNCHANGED <<input, overflow_checks, codec, region, result, parsed, dimension, probe, earlier>>

\* the loop is over: Ok(())
ValidateReturn ==
    /\ walk.out = Running
    /\ walk.x = REGION_WIDTH
    /\ walk' = [walk EXCEPT !.out = Ok("()")]
    /\ UNCHANGED <<input, overflow_checks, codec, region, result, parsed, dimension, probe, earlier>>

ValidateNext ==
    \/ ValidateSlot
    \/ ValidateReturn

SpecValidate == ValidateInit /\ [][ValidateNext]_vars

\* The slot validate's loop is at in pass number n (from 0): x outer, z inner.
SlotX(n) == n \div REGION_WIDTH
SlotZ(n) == n % REGION_WIDTH
\* What the slot of pass n does to a validate that reaches it.
SlotOutcomes(n) == validate_slot(region, SlotX(n), SlotZ(n), overflow_checks, codec)
SlotPasses(n) == SlotOutcomes(n) = {Ok("next")}
Passes == 0..(HEADER_SLOTS - 1)
Finished == walk.out # Running /\ walk.out # Ok("-")

\* C11: validate ends after at most 1024 slots; it returns Ok(()) exactly
\* when every slot's get_chunk succeeds and every chunk present parses, and
\* otherwise it returns the error of the first slot that fails, in the order
\* x outer, z inner, having looked at no later slot.
C11_ValidateFirstFailure ==
    Finished =>
        /\ walk.visited <= HEADER_SLOTS
        /\ walk.out.tag \in {"Ok", "Err"}
        /\ walk.out = Ok("()") <=> \A n \in Passes : SlotPasses(n)
        /\ walk.out.tag = "Err" =>
             /\ ~SlotPasses(walk.visited - 1)
             /\ walk.out \in SlotOutcomes(walk.visited - 1)
             /\ \A n \in 0..(walk.visited - 2) : SlotPasses(n)

\* ------------------------------------------------------------------------
\* i32 arithmetic and positive_mod!
\* ------------------------------------------------------------------------
\* Rust's / and % on i32 truncate towards zero (divisor > 0 here).
div_i32(a, b) == (a \div b) + (IF a < 0 /\ a % b # 0 THEN 1 ELSE 0)
rem_i32(a, b) == a - b * div_i32(a, b)

\* the remainder left as Rust's % gives it
positive_mod_truncating(ex, num) == rem_i32(ex, num)

\* positive_mod!(ex, num)
positive_mod(ex, num) == rem_i32(rem_i32(ex, num) + num, num)

\* `v as i8`: the low eight bits, read as a signed byte
as_i8(v) == ((v + 128) % 256) - 128

\* ------------------------------------------------------------------------
\* 64-bit words (four 16-bit limbs, least significant first)
\* ------------------------------------------------------------------------
WORD_BITS == 64
LIMB_BITS == 16

\* bit j of a word, 0 for j past the word
BitOf(word, j) ==
    IF j >= WORD_BITS THEN 0 ELSE (word[(j \div LIMB_BITS) + 1] \div 2^(j % LIMB_BITS)) % 2

RECURSIVE LimbOf(_, _, _)
\* the limb whose bits from number `b` on are bit[base + b], ...
LimbOf(bit, base, b) ==
    IF b = LIMB_BITS THEN 0 ELSE bit[base + b] * 2^b + LimbOf(bit, base, b + 1)

\* the word of the bits bit[0], ..., bit[63]
WordOf(bit) ==
    <<LimbOf(bit, 0, 0), LimbOf(bit, LIMB_BITS, 0),
      LimbOf(bit, 2 * LIMB_BITS, 0), LimbOf(bit, 3 * LIMB_BITS, 0)>>

\* limb k of a word, 0 for k past the word
LimbAt(word, k) == IF k > Len(word) THEN 0 ELSE word[k]

\* word >> n, for n < 64
Shr(word, n) ==
    LET q == n \div LIMB_BITS
        r == n % LIMB_BITS
        limb(k) == (LimbAt(word, k + q) \div 2^r)
                   + (LimbAt(word, k + q + 1) % 2^r) * 2^(LIMB_BITS - r)
    IN  <<limb(1), limb(2), limb(3), limb(4)>>

\* word & (2u64.pow(bits) - 1), the low `bits` bits of the word; the whole
\* word for bits >= 64, where a build without overflow checks has
\* 2u64.pow(bits) - 1 = u64::MAX
LowBits(word, bits) ==
    LET limb(k) == IF bits >= k * LIMB_BITS THEN word[k]
                   ELSE IF bits <= (k - 1) * LIMB_BITS THEN 0
                   ELSE word[k] % 2^(bits - (k - 1) * LIMB_BITS)
    IN  <<limb(1), limb(2), limb(3), limb(4)>>

\* ------------------------------------------------------------------------
\* Packed arrays and get_item_in_packed_slice
\* ------------------------------------------------------------------------
\* the 16 * 16 * 16 entries of a section's packed array
SECTION_VOXELS == 4096

\* A &[u64] is kept as its length and the rule that gives its words: the
\* entries are packed `pack` bits each, lowest bits first, none straddling
\* two words; entry i holds i % mod; the bits left over at the top of each
\* word all hold `pad`.
Packed(len, pack, mod, pad) == [len |-> len, pack |-> pack, mod |-> mod, pad |-> pad]

\* slice[w]
WordAt(slice, w) ==
    LET per == WORD_BITS \div slice.pack
        entry(i) == i % slice.mod
        bit(j) == IF ~(j \div slice.pack < per) THEN slice.pad
                  \* the entries of the model are all below 2^16
                  ELSE IF j % slice.pack >= LIMB_BITS THEN 0
                  ELSE (entry(w * per + (j \div slice.pack)) \div 2^(j % slice.pack)) % 2
    IN  WordOf([j \in 0..(WORD_BITS - 1) |-> bit(j)])

\* The outcomes of get_item_in_packed_slice: the u64 it returns, or a panic.
Item(word) == [tag |-> "Item", item |-> word]
ItemPanic == [tag |-> "Panic", item |-> Zero(USIZE_LIMBS)]

\* the quotient rounded down
expected_len_floor(nums_per_u64) == SECTION_VOXELS \div nums_per_u64

\* (4096. / nums_per_u64 as f32).ceil() as u32; the quotient by 0 is
\* infinite and converts to u32::MAX, which no slice of the model has
expected_len(nums_per_u64) == (SECTION_VOXELS + nums_per_u64 - 1) \div nums_per_u64

\* the assert_eq! on the slice's length left out
len_asserted_unchecked(slice, nums_per_u64) == TRUE

\* assert_eq!(slice.len() as u32, (4096. / nums_per_u64 as f32).ceil() as u32)
len_asserted(slice, nums_per_u64) ==
    nums_per_u64 # 0 /\ slice.len = expected_len(nums_per_u64)

\* the entry taken from the bottom of the word, whatever the index
item_unshifted(slice, index, bits, nums_per_u64) ==
    LowBits(WordAt(slice, index \div nums_per_u64), bits)

\* (slice[index / nums_per_u64] >> bits * index_in_num) & (2u64.pow(bits) - 1)
item_shifted(slice, index, bits, nums_per_u64) ==
    LET index_in_num == index % nums_per_u64
        shifted_num == Shr(WordAt(slice, index \div nums_per_u64), bits * index_in_num)
    IN  LowBits(shifted_num, bits)

\* the decoder with the entries packed end to end: ceil(64 / bits) to a word
get_item_in_packed_slice_tight(slice, index, bits, checks) ==
    IF bits = 0 THEN ItemPanic
    ELSE
    LET nums_per_u64 == (WORD_BITS + bits - 1) \div bits
    IN  IF ~len_asserted(slice, nums_per_u64) THEN ItemPanic
        ELSE IF ~(index \div nums_per_u64 < slice.len) THEN ItemPanic
        ELSE IF bits >= WORD_BITS /\ checks THEN ItemPanic
        ELSE Item(item_shifted(slice, index, bits, nums_per_u64))

get_item_in_packed_slice(slice, index, bits, checks) ==
    \* u64::BITS / bits divides by zero
    IF bits = 0 THEN ItemPanic
    ELSE
    LET nums_per_u64 == WORD_BITS \div bits
    IN  IF ~len_asserted(slice, nums_per_u64) THEN ItemPanic
        \* slice[..] past the end
        ELSE IF ~(index \div nums_per_u64 < slice.len) THEN ItemPanic
        \* 2u64.pow(64) overflows
        ELSE IF bits >= WORD_BITS /\ checks THEN ItemPanic
        ELSE Item(item_shifted(slice, index, bits, nums_per_u64))

\* ------------------------------------------------------------------------
\* ParsedChunk: sections, palettes, get_chunk_section_at and get_block
\* ------------------------------------------------------------------------
\* the side of a section, in blocks
SECTION_SIDE == 16
\* the smallest width the entries of a packed block array have
MIN_BITS == 4
\* Block names are numbered; 0 is "minecraft:air".
AIR == 0

\* A BlockState; `properties` is None in every block of the model.
BlockState(name) == [name |-> name, properties |-> "None"]

\* A Vec<BlockState> is kept as its length and the rule that gives its
\* entries: entry i names block `first + i`.
Palette(len, first) == [len |-> len, first |-> first]
\* palette[i]
PaletteAt(palette, i) == BlockState(palette.first + i)

\* Option<LongArray> and Option<BlockStates>
NoData == [some |-> FALSE, slice |-> Packed(0, 1, 1, 0)]
SomeData(slice) == [some |-> TRUE, slice |-> slice]
NoBlockStates == [some |-> FALSE, palette |-> Palette(0, 0), data |-> NoData]
BlockStates(palette, data) == [some |-> TRUE, palette |-> palette, data |-> data]
\* nbt::ChunkSection
ChunkSection(y, block_states) == [y |-> y, block_states |-> block_states]

\* (len as f32).log2().ceil() as u32: -infinity, hence 0, for an empty
\* palette; exact for the lengths of the model, all far below 2^20
RECURSIVE log2_ceil(_, _)
log2_ceil(len, b) == IF 2^b >= len THEN b ELSE log2_ceil(len, b + 1)

\* the width without the minimum of 4
block_bits_no_minimum(len) == log2_ceil(len, 0)

\* std::cmp::max((bs.palette.len() as f32).log2().ceil() as u32, 4)
block_bits(len) == IF log2_ceil(len, 0) > MIN_BITS THEN log2_ceil(len, 0) ELSE MIN_BITS

\* The position in self.sections of the section get_chunk_section_at
\* returns, 0 for None.
get_chunk_section_at(self, block_y) ==
    LET subchunk_y == as_i8(div_i32(block_y, SECTION_SIDE))
        found == {k \in 1..Len(self.sections) : self.sections[k].y = subchunk_y}
    IN  IF found = {} THEN 0 ELSE CHOOSE k \in found : \A j \in found : k <= j

\* The outcome of get_block, with the values of its locals when it ended:
\* the section looked in, the block's y inside it, the width and the index
\* of the entry read and the entry itself (-1 where not computed).
Block(tag, block, section, y, bits, index, raw) ==
    [tag |-> tag, block |-> block, section |-> section, y |-> y,
     bits |-> bits, index |-> index, raw |-> raw]

get_block(self, block_x, block_y, block_z, checks) ==
    LET at == get_chunk_section_at(self, block_y)
        y == positive_mod(block_y, SECTION_SIDE)
    IN  IF at = 0 THEN Block("None", BlockState(AIR), 0, -1, -1, -1, -1)
        ELSE IF ~(block_x < SECTION_SIDE) \/ ~(block_z < SECTION_SIDE)
        THEN Block("Panic", BlockState(AIR), at, -1, -1, -1, -1)
        ELSE
        LET bs == self.sections[at].block_states
        IN  IF ~bs.some THEN Block("None", BlockState(AIR), at, y, -1, -1, -1)
            ELSE IF ~bs.data.some THEN Block("Some", BlockState(AIR), at, y, -1, -1, -1)
            ELSE
            LET bits == block_bits(bs.palette.len)
                block_index == y * SECTION_SIDE * SECTION_SIDE + block_z * SECTION_SIDE + block_x
                block == get_item_in_packed_slice(bs.data.slice, block_index, bits, checks)
            IN  IF block.tag = "Panic"
                THEN Block("Panic", BlockState(AIR), at, y, bits, block_index, -1)
                \* bs.palette[block as usize] past the end
                ELSE IF ~(IsSmall(block.item) /\ ToNat(block.item) < bs.palette.len)
                THEN Block("Panic", BlockState(AIR), at, y, bits, block_index,
                           IF IsSmall(block.item) THEN ToNat(block.item) ELSE -1)
                ELSE Block("Some", PaletteAt(bs.palette, ToNat(block.item)), at, y, bits,
                           block_index, ToNat(block.item))

\* ------------------------------------------------------------------------
\* The chunks and the calls the block model is run on
\* ------------------------------------------------------------------------
MaxBits == 12
MaxPalette == 4096

\* the width a well-formed section packs a palette of `len` blocks with
WidthFor(len) ==
    CHOOSE b \in MIN_BITS..(MaxBits + 2) : 2^b >= len /\ (b = MIN_BITS \/ 2^(b - 1) < len)
\* a packed array that is well formed for a palette of `len` blocks
\* (entry i is i % len), its spare bits all set
DataFor(len) ==
    SomeData(Packed(expected_len(WORD_BITS \div WidthFor(len)), WidthFor(len), len, 1))
\* the same with every entry that fits the width, so some are no palette index
WideDataFor(len) ==
    SomeData(Packed(expected_len(WORD_BITS \div WidthFor(len)), WidthFor(len), 2^WidthFor(len), 1))
\* a chunk of one section
OneSection(y, palette, data) ==
    [sections |-> <<ChunkSection(y, BlockStates(palette, data))>>]

Inside == 0..(SECTION_SIDE - 1)

\* Chunks of several sections, each with a palette of its own blocks; the
\* second section numbered 0 is never the first found.
Stack ==
    [sections |->
       <<ChunkSection(0, BlockStates(Palette(SECTION_SIDE, 200), DataFor(SECTION_SIDE))),
         ChunkSection(-1, BlockStates(Palette(SECTION_SIDE, 100), DataFor(SECTION_SIDE))),
         ChunkSection(1, BlockStates(Palette(SECTION_SIDE, 300), DataFor(SECTION_SIDE))),
         ChunkSection(0, BlockStates(Palette(SECTION_SIDE, 400), DataFor(SECTION_SIDE)))>>]
\* Sections that are not as the decoder expects: no block states, a
\* palette of one block (stone) and no packed array, entries that are no
\* palette index, a packed array one word short, one word long, and empty.
OddChunks ==
    { [sections |-> <<ChunkSection(0, NoBlockStates)>>],
      OneSection(0, Palette(1, 1), NoData),
      OneSection(0, Palette(1, AIR), NoData),
      OneSection(0, Palette(SECTION_SIDE + 1, 1), WideDataFor(SECTION_SIDE + 1)),
      OneSection(0, Palette(SECTION_SIDE, 1),
                 SomeData(Packed(expected_len(SECTION_SIDE) - 1, MIN_BITS, SECTION_SIDE, 0))),
      OneSection(0, Palette(SECTION_SIDE, 1),
                 SomeData(Packed(expected_len(SECTION_SIDE) + 1, MIN_BITS, SECTION_SIDE, 0))),
      OneSection(0, Palette(SECTION_SIDE, 1), SomeData(Packed(0, MIN_BITS, SECTION_SIDE, 0))) }

\* block heights around the section borders, and far outside the world
Heights ==
    {-2 * SECTION_SIDE - 1, -2 * SECTION_SIDE, -SECTION_SIDE - 1, -SECTION_SIDE, -SECTION_SIDE + 1,
     -1, 0, 1, SECTION_SIDE - 1, SECTION_SIDE, 2 * SECTION_SIDE - 1, 2 * SECTION_SIDE,
     256 * SECTION_SIDE - 1, 256 * SECTION_SIDE, -256 * SECTION_SIDE, 2147483647, -2147483647 - 1}
Columns == {0, 1, SECTION_SIDE - 1, SECTION_SIDE}

\* a call of get_block or get_chunk_section_at, before and after it is made
Asked(x, y, z) ==
    [op |-> "asked", x |-> x, y |-> y, z |-> z, out |-> Block("None", BlockState(AIR), 0, -1, -1, -1, -1)]

\* every block of a section, for the longest palette of every width
DecodeCase ==
    \E b \in MIN_BITS..MaxBits, x \in Inside, y \in Inside, z \in Inside :
        /\ overflow_checks = TRUE
        /\ parsed = OneSection(0, Palette(2^b, 1), DataFor(2^b))
        /\ probe = Asked(x, y, z)

\* the last block of a section, for every palette length
PaletteCase ==
    \E n \in 1..MaxPalette :
        /\ overflow_checks = TRUE
        /\ parsed = OneSection(0, Palette(n, 1), DataFor(n))
        /\ probe = Asked(SECTION_SIDE - 1, SECTION_SIDE - 1, SECTION_SIDE - 1)

\* the chunks of several or odd sections, at the heights and columns above,
\* in either build
SectionCase ==
    \E c \in {Stack} \cup OddChunks, x \in Columns, y \in Heights, z \in Columns :
        /\ overflow_checks \in BOOLEAN
        /\ parsed = c
        /\ probe = Asked(x, y, z)

ChunkInit ==
    /\ input = Buffer(0, <<>>)
    /\ earlier = NoEarlier
    /\ codec = <<>>
    /\ region = NoRegion
    /\ result = Call("none", 0, 0, NoChunk, Ok("-"))
    /\ walk = NoWalk
    /\ dimension = NoDimension
    /\ \/ DecodeCase
       \/ PaletteCase
       \/ SectionCase

GetBlock ==
    /\ probe.op = "asked"
    /\ probe' = [probe EXCEPT !.op = "get_block",
                              !.out = get_block(parsed, probe.x, probe.y, probe.z, overflow_checks)]
    /\ UNCHANGED <<input, overflow_checks, codec, region, result, walk, parsed, dimension, earlier>>

\* get_block_from_absolute_coords
GetBlockFromAbsoluteCoords ==
    /\ probe.op = "asked"
    /\ probe' = [probe EXCEPT !.op = "get_block_from_absolute_coords",
                              !.out = get_block(parsed, probe.x % SECTION_SIDE, probe.y,
                                                probe.z % SECTION_SIDE, overflow_checks)]
    /\ UNCHANGED <<input, overflow_checks, codec, region, result, walk, parsed, dimension, earlier>>

ChunkNext == GetBlock

SpecChunk == ChunkInit /\ [][ChunkNext]_vars

\* A block height alone: every one near 0, in a chunk without sections.
MaxHeight == 70
HeightCase ==
    \E y \in (-MaxHeight)..MaxHeight :
        /\ overflow_checks \in BOOLEAN
        /\ parsed = [sections |-> <<>>]
        /\ probe = Asked(0, y, 0)

\* get_chunk_section_at and positive_mod! on their own, on the chunks of
\* several or odd sections
SectionInit ==
    /\ input = Buffer(0, <<>>)
    /\ earlier = NoEarlier
    /\ codec = <<>>
    /\ region = NoRegion
    /\ result = Call("none", 0, 0, NoChunk, Ok("-"))
    /\ walk = NoWalk
    /\ dimension = NoDimension
    /\ \/ SectionCase
       \/ HeightCase

GetChunkSectionAt ==
    /\ probe.op = "asked"
    /\ probe' = [probe EXCEPT !.op = "get_chunk_section_at",
                              !.out.section = get_chunk_section_at(parsed, probe.y)]
    /\ UNCHANGED <<input, overflow_checks, codec, region, result, walk, parsed, dimension, earlier>>

\* positive_mod!(block_y, 16) and positive_mod!(.., 32) of the height asked for
PositiveMod ==
    /\ probe.op = "asked"
    /\ \E num \in {SECTION_SIDE, REGION_WIDTH} :
         probe' = [op |-> "positive_mod", x |-> probe.x, y |-> probe.y, z |-> probe.z,
                   num |-> num, out |-> [probe.out EXCEPT !.y = positive_mod(probe.y, num)]]
    /\ UNCHANGED <<input, overflow_checks, codec, region, result, walk, parsed, dimension, earlier>>

SectionNext ==
    \/ GetChunkSectionAt
    \/ PositiveMod
    \/ GetBlock
    \/ GetBlockFromAbsoluteCoords

SpecSection == SectionInit /\ [][SectionNext]_vars

\* ------------------------------------------------------------------------
\* The specification's reading of a get_block call
\* ------------------------------------------------------------------------
\* The section the call looked in and what it holds.
Looked == parsed.sections[probe.out.section]
LookedPalette == Looked.block_states.palette
LookedData == Looked.block_states.data.slice
InColumn == probe.x \in Inside /\ probe.z \in Inside
HasPackedArray ==
    /\ probe.out.section # 0
    /\ Looked.block_states.some
    /\ Looked.block_states.data.some

\* i = (y mod 16) * 256 + z * 16 + x
LinearIndex == (probe.y % SECTION_SIDE) * SECTION_SIDE * SECTION_SIDE + probe.z * SECTION_SIDE + probe.x
\* bits = max(ceil(log2(palette length)), 4) and values_per_word = 64 / bits
SpecBits == WidthFor(LookedPalette.len)
ValuesPerWord == WORD_BITS \div SpecBits
ExpectedWords == (SECTION_VOXELS + ValuesPerWord - 1) \div ValuesPerWord
\* raw = (word[i / values_per_word] >> (bits * (i % values_per_word))) & (2^bits - 1),
\* bit by bit
RECURSIVE BitsFrom(_, _, _)
BitsFrom(word, from, n) ==
    IF n = 0 THEN 0 ELSE BitOf(word, from) + 2 * BitsFrom(word, from + 1, n - 1)
SpecRaw ==
    BitsFrom(WordAt(LookedData, LinearIndex \div ValuesPerWord),
             SpecBits * (LinearIndex % ValuesPerWord), SpecBits)

\* C12: in a section whose packed array has the expected length, get_block(x, y, z)
\* with x and z in [0,16) returns palette[raw], raw being the entry of index
\* i = (y mod 16)*256 + z*16 + x, taken from word i / values_per_word at bit
\* bits * (i % values_per_word), for every i and every width from 4 to 12.
C12_PackedDecode ==
    (/\ probe.op = "get_block"
     /\ InColumn
     /\ HasPackedArray
     /\ LookedData.len = ExpectedWords
     /\ SpecRaw < LookedPalette.len)
    => /\ probe.out.tag = "Some"
       /\ probe.out.block = PaletteAt(LookedPalette, SpecRaw)

\* the last but one block of a section whose entries are 12 bits wide,
\* which is neither the first entry of its word nor entry 0 of the palette
C12_Witness ==
    /\ probe.op = "get_block"
    /\ InColumn
    /\ HasPackedArray
    /\ LookedData.len = ExpectedWords
    /\ SpecBits = MaxBits
    /\ LinearIndex = SECTION_VOXELS - 2
    /\ LinearIndex % ValuesPerWord # 0
    /\ SpecRaw = LinearIndex % LookedPalette.len
    /\ SpecRaw > 0
    /\ probe.out.block = PaletteAt(LookedPalette, SpecRaw)

\* C13: for a palette of n blocks, n from 1 to 4096, the width get_block
\* reads the packed array with is max(ceil(log2(n)), 4): at least 4, wide
\* enough for n values, and no wider than that needs.
C13_BitsPerEntry ==
    (/\ probe.op = "get_block"
     /\ InColumn
     /\ HasPackedArray
     /\ LookedPalette.len >= 1)
    => /\ probe.out.bits >= MIN_BITS
       /\ 2^probe.out.bits >= LookedPalette.len
       /\ probe.out.bits = MIN_BITS \/ 2^(probe.out.bits - 1) < LookedPalette.len

\* a palette one block longer than 11 bits can index, read with 12 bits
C13_Witness ==
    /\ probe.op = "get_block"
    /\ InColumn
    /\ HasPackedArray
    /\ LookedPalette.len = 2^(MaxBits - 1) + 1
    /\ probe.out.bits = MaxBits
    /\ probe.out.tag = "Some"

\* C14: when the section has no packed array and its palette has exactly one
\* entry, get_block returns that entry, palette[0], for every block of
\* the section, whatever block the entry names.
C14_SingleEntryPalette ==
    (/\ probe.op = "get_block"
     /\ InColumn
     /\ probe.out.section # 0
     /\ Looked.block_states.some
     /\ ~Looked.block_states.data.some
     /\ LookedPalette.len = 1)
    => /\ probe.out.tag = "Some"
       /\ probe.out.block = PaletteAt(LookedPalette, 0)

\* C15: when the entry read from the packed array is no index of the
\* palette (raw >= palette length), get_block reports a data-corruption
\* error and does not panic.
C15_IndexPastPalette ==
    (/\ probe.op = "get_block"
     /\ InColumn
     /\ HasPackedArray
     /\ LookedData.len = ExpectedWords
     /\ SpecRaw >= LookedPalette.len)
    => /\ probe.out.tag # "Panic"
       /\ probe.out.tag = "Err"

\* ------------------------------------------------------------------------
\* The arrays and the calls the decoder is run on by itself
\* ------------------------------------------------------------------------
\* the number of words 4096 entries of `bits` bits take, none straddling
RightLen(bits) == (SECTION_VOXELS + (WORD_BITS \div bits) - 1) \div (WORD_BITS \div bits)
\* [0; len]
Zeros(len) == Packed(len, 1, 1, 0)
\* an array of `len` words whose entries, `bits` wide, run through every
\* value (entry i is i % 2^bits, or i % 4096 when that is smaller), the
\* spare bits set
Ramp(len, bits) ==
    Packed(len, bits,
           IF bits >= LIMB_BITS THEN SECTION_VOXELS
           ELSE IF 2^bits < SECTION_VOXELS THEN 2^bits ELSE SECTION_VOXELS,
           1)
\* the lengths of test_get_item_in_packed_slice, and none
TestLens == {0, 128, 456}
\* the index of the test, the ends of the section and one past it
Indexes == {0, 1, 15, SECTION_VOXELS \div 2, SECTION_VOXELS - 1, SECTION_VOXELS}

AskedItem(slice, index, bits) ==
    [op |-> "asked", slice |-> slice, index |-> index, bits |-> bits, out |-> ItemPanic]

\* every place an entry can have in a word: the entries of the first two
\* and of the last two words of an array of the right length, at every
\* width a section is stored with
WordCase ==
    \E bits \in MIN_BITS..(WORD_BITS - 1) :
        \E index \in (0..(2 * (WORD_BITS \div bits) - 1))
                      \cup ((SECTION_VOXELS - 2 * (WORD_BITS \div bits))..(SECTION_VOXELS - 1)) :
            probe = AskedItem(Ramp(RightLen(bits), bits), index, bits)

PackedInit ==
    /\ input = Buffer(0, <<>>)
    /\ earlier = NoEarlier
    /\ overflow_checks \in BOOLEAN
    /\ codec = <<>>
    /\ region = NoRegion
    /\ result = Call("none", 0, 0, NoChunk, Ok("-"))
    /\ walk = NoWalk
    /\ parsed = NoParsed
    /\ dimension = NoDimension
    /\ \/ \E bits \in 0..WORD_BITS, index \in Indexes :
            \/ \E len \in TestLens : probe = AskedItem(Zeros(len), index, bits)
            \/ /\ bits > 0
               /\ \E len \in (RightLen(bits) - 1)..(RightLen(bits) + 1) :
                    \/ probe = AskedItem(Zeros(len), index, bits)
                    \/ probe = AskedItem(Ramp(len, bits), index, bits)
       \/ WordCase

GetItemInPackedSlice ==
    /\ probe.op = "asked"
    /\ probe' = [probe EXCEPT !.op = "get_item_in_packed_slice",
                              !.out = get_item_in_packed_slice(probe.slice, probe.index, probe.bits,
                                                               overflow_checks)]
    /\ UNCHANGED <<input, overflow_checks, codec, region, result, walk, parsed, dimension, earlier>>

PackedNext == GetItemInPackedSlice

SpecPacked == PackedInit /\ [][PackedNext]_vars

\* What the specification says of a call of the decoder.
IsZeros == probe.slice.mod = 1 /\ probe.slice.pad = 0
InSection == probe.index \in 0..(SECTION_VOXELS - 1)
\* a width the mask 2^bits - 1 exists for
ValidBits == probe.bits \in 1..(WORD_BITS - 1)
ExpectedWordsFor(bits) ==
    LET values_per_word == WORD_BITS \div bits
    IN  (SECTION_VOXELS + values_per_word - 1) \div values_per_word

\* C16: an all-zero packed array of any length decodes every position to 0,
\* at every width: get_item_in_packed_slice(zeros(n), i, bits) == 0 for all
\* n, all i in [0,4096) and all valid bits.
C16_ZerosOfAnyLength ==
    (probe.op = "get_item_in_packed_slice" /\ IsZeros /\ InSection /\ ValidBits)
    => probe.out = Item(Zero(USIZE_LIMBS))

\* C16, as the code has it: an all-zero packed array of the length the
\* width calls for, ceil(4096 / (64 / bits)) words, decodes every position
\* to 0, for all i in [0,4096) and all bits in [1,64); with any other
\* length the call panics.
C16_ZerosOfExpectedLength ==
    (probe.op = "get_item_in_packed_slice" /\ IsZeros /\ InSection /\ ValidBits)
    => IF probe.slice.len = ExpectedWordsFor(probe.bits)
       THEN probe.out = Item(Zero(USIZE_LIMBS))
       ELSE probe.out = ItemPanic

\* the second assertion of test_get_item_in_packed_slice
C16_Witness ==
    /\ probe.op = "get_item_in_packed_slice"
    /\ IsZeros
    /\ probe.slice.len = 456
    /\ probe.index = 15
    /\ probe.bits = 7
    /\ probe.out = Item(Zero(USIZE_LIMBS))

\* C17: a packed array whose word count is not ceil(4096 / values_per_word)
\* makes the decode fail loudly for every index asked for, those whose word
\* is inside the array included; it returns no value.
C17_WrongLengthFailsLoudly ==
    (/\ probe.op = "get_item_in_packed_slice"
     /\ probe.bits >= 1
     /\ probe.slice.len # ExpectedWordsFor(probe.bits))
    => probe.out = ItemPanic

\* an array one word too long, asked for its first entry
C17_Witness ==
    /\ probe.op = "get_item_in_packed_slice"
    /\ probe.bits \in MIN_BITS..MaxBits
    /\ ~IsZeros
    /\ probe.slice.len = ExpectedWordsFor(probe.bits) + 1
    /\ probe.index = 0
    /\ probe.out = ItemPanic

\* floor(block_y / 16), the specification's section of a block height
SectionOf(block_y) == block_y \div SECTION_SIDE

\* C18: get_chunk_section_at(block_y) returns the section whose Y is
\* floor(block_y / 16), and None when the chunk has none: block_y = -1 gives
\* section -1 and never section 0, and a block_y far outside the world is
\* never taken for a section the chunk has.
C18_SectionByFloor ==
    probe.op = "get_chunk_section_at" =>
        IF \E k \in 1..Len(parsed.sections) : parsed.sections[k].y = SectionOf(probe.y)
        THEN /\ probe.out.section # 0
             /\ Looked.y = SectionOf(probe.y)
        ELSE probe.out.section = 0

\* C19: positive_mod!(e, n) is the floor modulo for every integer e and n in
\* {16, 32}: its result r has 0 <= r < n and e - r divisible by n, so
\* positive_mod!(-1, 16) is 15; and the y inside the section that get_block
\* uses is always in [0,16).
C19_PositiveModIsFloorMod ==
    /\ probe.op = "positive_mod" =>
         /\ probe.out.y \in 0..(probe.num - 1)
         /\ (probe.y - probe.out.y) % probe.num = 0
    /\ (probe.op = "get_block" /\ probe.out.section # 0 /\ InColumn) =>
         /\ probe.out.y \in 0..(SECTION_SIDE - 1)
         /\ (probe.y - probe.out.y) % SECTION_SIDE = 0

\* positive_mod!(-1, 16) == 15
C19_Witness ==
    /\ probe.op = "positive_mod"
    /\ probe.y = -1
    /\ probe.num = SECTION_SIDE
    /\ probe.out.y = SECTION_SIDE - 1

\* ------------------------------------------------------------------------
\* Dimension: get_region_from_chunk and get_chunk_in_world
\* ------------------------------------------------------------------------
\* A Dimension is its map from (region_x, region_z) to the region's file.
DimensionOf(files) == [regions |-> files]

\* self.has_region(region_x, region_z)
has_region(self, region_x, region_z) == <<region_x, region_z>> \in DOMAIN self.regions

\* self.parse_region(region_x, region_z), for a region the dimension has:
\* RegionFile::parse opens the file and hands it to Region::from_reader;
\* `io_error` is whether opening or reading it fails
parse_region(self, region_x, region_z, io_error) ==
    from_reader(self.regions[<<region_x, region_z>>], io_error)

\* The outcome of a call on a dimension, with the region looked in, the
\* Region parsed from it and the chunk asked of it (<<>>, NoRegion and -1
\* where the call did not get that far).
InWorld(key, got, x, z, out) == [region |-> key, got |-> got, x |-> x, z |-> z, out |-> out]

get_region_from_chunk(self, chunk_x, chunk_z, io_error) ==
    LET region_x == div_i32(chunk_x, REGION_WIDTH)
        region_z == div_i32(chunk_z, REGION_WIDTH)
    IN  IF has_region(self, region_x, region_z)
        THEN LET r == parse_region(self, region_x, region_z, io_error)
             IN  InWorld(<<region_x, region_z>>, r.region, -1, -1, r.out)
        ELSE InWorld(<<>>, NoRegion, -1, -1, Ok("None"))

\* The set of outcomes of get_chunk_in_world.
get_chunk_in_world(self, chunk_x, chunk_z, io_error, checks, codec_of) ==
    LET found == get_region_from_chunk(self, chunk_x, chunk_z, io_error)
        x == positive_mod(chunk_x, REGION_WIDTH)
        z == positive_mod(chunk_z, REGION_WIDTH)
    IN  IF found.region = <<>> \/ found.out.tag # "Ok" THEN {found}
        ELSE UNION { IF g.tag = "Ok" /\ g.val = "Some"
                     THEN { InWorld(found.region, found.got, x, z, p) :
                              p \in parse(found.got, g.chunk, codec_of) }
                     ELSE { InWorld(found.region, found.got, x, z, g) } :
                     g \in get_chunk(found.got, x, z, checks) }

\* Region files with one Zlib chunk, at slot (31, 0), and a file too short
\* to be a region.
FileWith(blob) == Buffer(LongFile, SlotOf("zlib", chunk_index(REGION_WIDTH - 1, 0), 0, blob))
ShortFile == Buffer(ENTRY_BYTES, <<>>)
Dimensions ==
    { DimensionOf(<<>>),
      DimensionOf(<<0, 0>> :> FileWith(ZeroBlob)),
      DimensionOf(<<0, 0>> :> FileWith(ZeroBlob) @@ <<-1, 0>> :> FileWith(ZlibBlob)
                  @@ <<0, -1>> :> FileWith(ZlibBlob) @@ <<-1, -1>> :> FileWith(ZeroBlob)
                  @@ <<1, 0>> :> ShortFile) }
\* chunk coordinates around the region borders
ChunkCoords ==
    {-REGION_WIDTH - 1, -REGION_WIDTH, -1, 0, REGION_WIDTH - 1, REGION_WIDTH, 2 * REGION_WIDTH - 1}

AskedChunk(x, z) ==
    [op |-> "asked", x |-> x, z |-> z, out |-> InWorld(<<>>, NoRegion, -1, -1, Ok("-"))]

DimensionInit ==
    /\ input = Buffer(0, <<>>)
    /\ earlier = NoEarlier
    /\ overflow_checks \in BOOLEAN
    /\ region = NoRegion
    /\ result = Call("none", 0, 0, NoChunk, Ok("-"))
    /\ walk = NoWalk
    /\ parsed = NoParsed
    /\ dimension \in Dimensions
    /\ codec \in [UNION {ZlibStreams(dimension.regions[k]) : k \in DOMAIN dimension.regions}
                    -> CodecOutcomes]
    /\ \E x \in ChunkCoords, z \in ChunkCoords : probe = AskedChunk(x, z)

GetRegionFromChunk ==
    /\ probe.op = "asked"
    /\ \E io_error \in BOOLEAN :
         probe' = [probe EXCEPT !.op = "get_region_from_chunk",
                                !.out = get_region_from_chunk(dimension, probe.x, probe.z, io_error)]
    /\ UNCHANGED <<input, overflow_checks, codec, region, result, walk, parsed, dimension, earlier>>

GetChunkInWorld ==
    /\ probe.op = "asked"
    /\ \E io_error \in BOOLEAN :
         \E out \in get_chunk_in_world(dimension, probe.x, probe.z, io_error, overflow_checks, codec) :
            probe' = [probe EXCEPT !.op = "get_chunk_in_world", !.out = out]
    /\ UNCHANGED <<input, overflow_checks, codec, region, result, walk, parsed, dimension, earlier>>

DimensionNext ==
    \/ GetRegionFromChunk
    \/ GetChunkInWorld

SpecDimension == DimensionInit /\ [][DimensionNext]_vars

\* (floor(chunk_x / 32), floor(chunk_z / 32))
RegionOfChunk == <<probe.x \div REGION_WIDTH, probe.z \div REGION_WIDTH>>

\* C20: get_region_from_chunk and get_chunk_in_world look in the region
\* (floor(chunk_x / 32), floor(chunk_z / 32)), and get_chunk_in_world asks it
\* for the chunk (chunk_x mod 32, chunk_z mod 32), the floor modulo: for
\* chunk_x = -1 the region x is -1 and the relative x is 31.
C20_RegionOfChunkByFloor ==
    probe.op \in {"get_region_from_chunk", "get_chunk_in_world"} =>
        IF RegionOfChunk \in DOMAIN dimension.regions
        THEN /\ probe.out.region = RegionOfChunk
             /\ (probe.op = "get_chunk_in_world" /\ probe.out.x # -1) =>
                  /\ probe.out.x = probe.x % REGION_WIDTH
                  /\ probe.out.z = probe.z % REGION_WIDTH
        ELSE /\ probe.out.region = <<>>
             /\ probe.out.out = Ok("None")

\* ------------------------------------------------------------------------
\* The header, slot by slot
\* ------------------------------------------------------------------------
\* A region file whose 1024 slots all differ.  Slot i's timestamp has four
\* different bytes that depend on i, the first of them 128 or more; its
\* location entry is empty when i % 5 = 4, has sector offset 0 and a sector
\* count when i % 64 = 63, and otherwise points to payload sector i, where a
\* chunk record of length 1 (the type tag alone) lies.
SlotTimestamp(i) == <<255 - (i % 7), 1 + (i \div 256), i % 256, (3 * i + 1) % 256>>
SlotLocation(i) ==
    IF i % 5 = 4 THEN <<0, 0, 0, 0>>
    ELSE IF i % 64 = 63 THEN <<0, 0, 0, 1 + (i % 3)>>
    ELSE <<0, (i + 2) \div 256, (i + 2) % 256, 1 + (i % 3)>>
HeaderFile ==
    Buffer(HEADER_BYTES + HEADER_SLOTS * SECTOR_BYTES,
           [p \in 0..(HEADER_BYTES - 1) |->
               IF p < HEADER_SLOTS * ENTRY_BYTES
               THEN SlotLocation(p \div ENTRY_BYTES)[(p % ENTRY_BYTES) + 1]
               ELSE SlotTimestamp((p \div ENTRY_BYTES) - HEADER_SLOTS)[(p % ENTRY_BYTES) + 1]]
        @@ [p \in {HEADER_BYTES + s * SECTOR_BYTES + 3 : s \in 0..(HEADER_SLOTS - 1)} |-> 1]
        @@ [p \in {HEADER_BYTES + s * SECTOR_BYTES + 4 : s \in 0..(HEADER_SLOTS - 1)} |-> Zlib])

\* a region over that file, and the slot a caller asks about: every slot,
\* and one past the edge
HeaderInit ==
    /\ input = HeaderFile
    /\ earlier = NoEarlier
    /\ overflow_checks \in BOOLEAN
    /\ codec = <<>>
    /\ region = from_slice(input).region
    /\ \E x \in 0..REGION_WIDTH, z \in 0..REGION_WIDTH :
         result = Call("asked", x, z, NoChunk, Ok("-"))
    /\ walk = NoWalk
    /\ parsed = NoParsed
    /\ dimension = NoDimension
    /\ probe = NoProbe

\* has_chunk, get_timestamp and get_chunk at the slot asked about
HeaderHasChunk ==
    /\ result.op = "asked"
    /\ result' = Call("has_chunk", result.x, result.z, NoChunk,
                      has_chunk(region, result.x, result.z))
    /\ UNCHANGED <<input, overflow_checks, codec, region, walk, parsed, dimension, probe, earlier>>

HeaderGetTimestamp ==
    /\ result.op = "asked"
    /\ result' = Call("get_timestamp", result.x, result.z, NoChunk,
                      get_timestamp(region, result.x, result.z))
    /\ UNCHANGED <<input, overflow_checks, codec, region, walk, parsed, dimension, probe, earlier>>

HeaderGetChunk ==
    /\ result.op = "asked"
    /\ \E out \in get_chunk(region, result.x, result.z, overflow_checks) :
         result' = Call("get_chunk", result.x, result.z, NoChunk, out)
    /\ UNCHANGED <<input, overflow_checks, codec, region, walk, parsed, dimension, probe, earlier>>

HeaderNext ==
    \/ HeaderHasChunk
    \/ HeaderGetTimestamp
    \/ HeaderGetChunk

SpecHeader == HeaderInit /\ [][HeaderNext]_vars

\* C21: for x, z in [0,32), get_timestamp(x, z) is the unsigned big-endian
\* value of the file bytes [4096 + 4i, 4096 + 4i + 4), i = z * 32 + x, and the
\* location entry has_chunk and get_chunk use is the file bytes [4i, 4i + 4):
\* a 3-byte big-endian sector offset, then a 1-byte sector count.
C21_HeaderLayout ==
    /\ (result.op = "get_timestamp" /\ InDomain) =>
          /\ result.out.tag = "Ok" /\ result.out.val = "U32"
          /\ result.out.num[2] = FileByte(4096 + 4 * Index) * 256 + FileByte(4096 + 4 * Index + 1)
          /\ result.out.num[1] = FileByte(4096 + 4 * Index + 2) * 256 + FileByte(4096 + 4 * Index + 3)
    /\ (result.op = "has_chunk" /\ InDomain) =>
          result.out = (IF SectorOffset = 0 /\ SectorCount = 0 THEN Ok("False") ELSE Ok("True"))
    /\ (result.op = "get_chunk" /\ InDomain) =>
          /\ (result.out = Ok("None")) <=> (SectorOffset = 0 /\ SectorCount = 0)
          /\ result.out.val = "Some" =>
                /\ SectorOffset >= 2
                /\ result.out.chunk.at = (SectorOffset - 2) * 4096 + 4

\* the chunk of slot 993, whose sector offset needs two bytes and whose
\* timestamp is above 2^31
C21_Witness ==
    /\ result.op = "get_chunk" /\ result.x = 1 /\ result.z = 31
    /\ result.out.val = "Some"
    /\ result.out.chunk.at = 993 * 4096 + 4
    /\ get_timestamp(region, 1, 31) = OkU32(<<225 * 256 + 164, 249 * 256 + 4>>)

\* ------------------------------------------------------------------------
\* A caller making calls in any order, and keeping what one of them returned
\* ------------------------------------------------------------------------
\* Region files with a chunk record in slot 0: a zlib stream, declared with
\* its length or with length 0, or data tagged GZip or with no compression
\* type at all.
CallRecords ==
    {<<Big(0, U32_LIMBS), Zlib, ZlibBlob>>, <<FullLength, Zlib, ZlibBlob>>,
     <<FullLength, GZip, ZeroBlob>>, <<FullLength, 255, ZeroBlob>>}
CallInputs ==
    { Forge(LongFile, 0, Big(2, U32_LIMBS), 1, Big(FixtureTimestamp, U32_LIMBS), 0,
            r[1], r[2], r[3]) : r \in CallRecords }
\* the slot that holds the chunk, an empty one, and one past the edge
HeldSlot == <<0, 0>>
EmptySlot == <<1, 0>>
OutsideSlot == <<REGION_WIDTH, 0>>
\* a block of the chunk's lowest section, and one outside its sixteen columns
CallBlocks == {<<0, -1, 0>>, <<SECTION_SIDE, 0, 0>>}

\* what the caller keeps of a call: the call and its outcome, and the region
\* and the bytes as they were
Kept(call) == [op |-> "kept", call |-> call, region |-> region, input |-> input]

CallsInit ==
    /\ input \in CallInputs
    /\ earlier = NoEarlier
    /\ overflow_checks \in BOOLEAN
    /\ codec \in [ZlibStreams(input) -> CodecOutcomes]
    /\ region = from_slice(input).region
    /\ result = Call("from_slice", 0, 0, NoChunk, from_slice(input).out)
    /\ walk = NoWalk
    /\ parsed = Stack
    /\ dimension = NoDimension
    /\ probe = NoProbe

CallHasChunk ==
    /\ \E c \in {HeldSlot, OutsideSlot} :
         result' = Call("has_chunk", c[1], c[2], NoChunk, has_chunk(region, c[1], c[2]))
    /\ earlier' \in {earlier, Kept(result')}
    /\ UNCHANGED <<input, overflow_checks, codec, region, walk, parsed, dimension, probe>>

CallGetTimestamp ==
    /\ \E c \in {HeldSlot} :
         result' = Call("get_timestamp", c[1], c[2], NoChunk, get_timestamp(region, c[1], c[2]))
    /\ earlier' \in {earlier, Kept(result')}
    /\ UNCHANGED <<input, overflow_checks, codec, region, walk, parsed, dimension, probe>>

CallGetChunk ==
    /\ \E c \in {HeldSlot, EmptySlot} :
         \E out \in get_chunk(region, c[1], c[2], overflow_checks) :
            result' = Call("get_chunk", c[1], c[2], NoChunk, out)
    /\ earlier' \in {earlier, Kept(result')}
    /\ UNCHANGED <<input, overflow_checks, codec, region, walk, parsed, dimension, probe>>

CallValidate ==
    /\ \E out \in validate(region, overflow_checks, codec) :
         result' = Call("validate", 0, 0, NoChunk, out)
    /\ earlier' \in {earlier, Kept(result')}
    /\ UNCHANGED <<input, overflow_checks, codec, region, walk, parsed, dimension, probe>>

CallGetBlock ==
    /\ \E b \in CallBlocks :
         probe' = [Asked(b[1], b[2], b[3]) EXCEPT
                      !.op = "get_block",
                      !.out = get_block(parsed, b[1], b[2], b[3], overflow_checks)]
    /\ earlier' \in {earlier, Kept(probe')}
    /\ UNCHANGED <<input, overflow_checks, codec, region, result, walk, parsed, dimension>>

CallsNext ==
    \/ CallHasChunk
    \/ CallGetTimestamp
    \/ CallGetChunk
    \/ CallValidate
    \/ CallGetBlock

SpecCalls == CallsInit /\ [][CallsNext]_vars

\* The last call on the region, or on the chunk, is the call kept earlier
\* made again: the same operation with the same arguments.
RegionCallAgain ==
    /\ earlier.op = "kept"
    /\ earlier.call.op = result.op
    /\ earlier.call.x = result.x /\ earlier.call.z = result.z
BlockCallAgain ==
    /\ earlier.op = "kept"
    /\ earlier.call.op = probe.op
    /\ earlier.call.x = probe.x /\ earlier.call.y = probe.y /\ earlier.call.z = probe.z

Views == {from_slice(input).region, from_reader(input, FALSE).region, from_array(input).region}

ZeroLength ==
    /\ ~EntryEmpty
    /\ LengthReadable
    /\ \A k \in 0..3 : PayloadByte(ByteStart + k) = 0

\* C24: when a non-empty entry's length prefix is 0, get_chunk returns an
\* error: no handle (none of length L - 1 wrapped, none whose type tag lies
\* outside the payload) and no panic.
C24_ZeroLengthIsError ==
    (result.op = "get_chunk" /\ InDomain /\ ZeroLength) =>
        result.out.tag = "Err"

\* ------------------------------------------------------------------------
\* Entries and words
\* ------------------------------------------------------------------------
\* The array asked about holds entry i = i % mod, the spare bits set.
IsRamp == probe.slice.pack = probe.bits /\ probe.slice.pad = 1

\* C25: for every bits in [4, 64) and every index i in [0, 4096), with
\* values_per_word = 64 / bits, the shift bits * (i % values_per_word) is at
\* most 64 - bits and the word index i / values_per_word is below
\* ceil(4096 / values_per_word): no entry straddles two words, and once the
\* length assertion passes the decoder neither overflows a shift nor indexes
\* out of bounds, and returns the entry.  The arithmetic does not depend on
\* the array: it is evaluated for every i in the states that asked for
\* entry 0, one or more for each width.
C25_NoStraddle ==
    (probe.op = "get_item_in_packed_slice" /\ probe.bits \in 4..63 /\ InSection) =>
        LET values_per_word == 64 \div probe.bits
            words == (4096 + values_per_word - 1) \div values_per_word
        IN  /\ probe.index = 0 =>
                 \A i \in 0..4095 :
                    /\ probe.bits * (i % values_per_word) <= 64 - probe.bits
                    /\ i \div values_per_word < words
            /\ probe.slice.len = words =>
                 /\ probe.out.tag = "Item"
                 /\ IsRamp => probe.out = Item(Big(probe.index % probe.slice.mod, USIZE_LIMBS))

\* the last entry of a word of twelve 5-bit entries, in the array's last
\* word but one: shifted down by 55 bits, the 4 spare bits above it set
C25_Witness ==
    /\ probe.op = "get_item_in_packed_slice"
    /\ IsRamp
    /\ probe.bits = 5 /\ probe.index = 4091
    /\ probe.slice.len = 342
    /\ probe.out = Item(Big(27, USIZE_LIMBS))

\* ------------------------------------------------------------------------
\* BigEndian<N> on its own
\* ------------------------------------------------------------------------
\* the values a byte is given: the least, the greatest, and those around
\* the sign bit
ByteSamples == {0, 1, 127, 128, 255}

\* BigEndian::from(inner), for the N = 1 to 5 bytes of `inner`
BigEndianInit ==
    /\ input = Buffer(0, <<>>)
    /\ earlier = NoEarlier
    /\ overflow_checks \in BOOLEAN
    /\ codec = <<>>
    /\ region = NoRegion
    /\ result = Call("none", 0, 0, NoChunk, Ok("-"))
    /\ walk = NoWalk
    /\ parsed = NoParsed
    /\ dimension = NoDimension
    /\ \E n \in 1..5 : \E inner \in [1..n -> ByteSamples] :
         probe = [op |-> "from", inner |-> inner, out |-> Ok("-")]

\* be.as_u32()
AsU32 ==
    /\ probe.op = "from"
    /\ probe' = [probe EXCEPT !.op = "as_u32",
                              !.out = IF as_u32_panics(probe.inner) THEN Panic
                                      ELSE OkU32(as_u32(probe.inner))]
    /\ UNCHANGED <<input, overflow_checks, codec, region, result, walk, parsed, dimension, earlier>>

\* u32::from(be), which exists for BigEndian<3> and BigEndian<4> only
U32From ==
    /\ probe.op = "from"
    /\ Len(probe.inner) \in {3, 4}
    /\ probe' = [probe EXCEPT !.op = "u32_from", !.out = OkU32(u32_from(probe.inner))]
    /\ UNCHANGED <<input, overflow_checks, codec, region, result, walk, parsed, dimension, earlier>>

BigEndianNext ==
    \/ AsU32
    \/ U32From

SpecBigEndian == BigEndianInit /\ [][BigEndianNext]_vars

\* The unsigned big-endian value of one to four bytes, as its low and its
\* high 16 bits.
BigEndianValue(bytes) ==
    CASE Len(bytes) = 1 -> <<bytes[1], 0>>
      [] Len(bytes) = 2 -> <<bytes[1] * 256 + bytes[2], 0>>
      [] Len(bytes) = 3 -> <<bytes[2] * 256 + bytes[3], bytes[1]>>
      [] Len(bytes) = 4 -> <<bytes[3] * 256 + bytes[4], bytes[1] * 256 + bytes[2]>>

\* C26: as_u32 returns the unsigned big-endian value of its N bytes for
\* every byte content and N in {1, 2, 3, 4}, the missing high bytes being
\* zero (a 3-byte value is below 2^24); u32::from returns the same for N in
\* {3, 4}; and as_u32 panics for N > 4.
C26_AsU32IsBigEndian ==
    /\ probe.op = "as_u32" =>
          IF Len(probe.inner) <= 4
          THEN /\ probe.out = OkU32(BigEndianValue(probe.inner))
               /\ Len(probe.inner) = 3 => probe.out.num[2] < 256
               /\ Len(probe.inner) \in {3, 4} => probe.out = OkU32(u32_from(probe.inner))
          ELSE probe.out = Panic
    /\ probe.op = "u32_from" =>
          /\ probe.out = OkU32(BigEndianValue(probe.inner))
          /\ probe.out = OkU32(as_u32(probe.inner))

\* three bytes whose first has its top bit set: 0x8000ff
C26_Witness ==
    /\ probe.op = "as_u32"
    /\ probe.inner = <<128, 0, 255>>
    /\ probe.out = OkU32(<<255, 128>>)

====
